---- MODULE Spec2Model ----
(***************************************************************************)
(* Model of the Whois lookup relay: the route get_whois_data               *)
(* (app/api/routes.py) and WhoisService (app/services/whois_service.py).   *)
(*                                                                         *)
(* JSON values are tagged records; Python strings are sequences of         *)
(* one-character strings; a Python exception is the value Raise(kind).     *)
(***************************************************************************)
EXTENDS Integers, Sequences, FiniteSets, TLC

VARIABLES
    pc,          \* position of the handler / harness
    request,     \* the DomainRequest body of the lookup in progress
    upstreamCalls, \* GETs sent to the provider for the lookup in progress
    upstream,    \* what the provider answered
    normalized,  \* which normalizer the route ran ("none" when none)
    response,    \* the HTTP response of the route
    now,         \* the value datetime.now() returns
    data,        \* input of a service function
    key,         \* second argument of _parse_date
    result       \* value returned (or exception raised) by a service function

vars == <<pc, request, upstreamCalls, upstream, normalized, response, now, data, key, result>>

(***************************************************************************)
(* JSON / Python values                                                    *)
(***************************************************************************)
JNull == [t |-> "null"]
JStr(s) == [t |-> "str", s |-> s]
JNum(n) == [t |-> "num", n |-> n]
JList(l) == [t |-> "list", l |-> l]
JDict(d) == [t |-> "dict", d |-> d]
Raise(e) == [t |-> "raise", e |-> e]

EmptyMap == [k \in {} |-> JNull]
EmptyDict == JDict(EmptyMap)
EmptyStr == JStr(<<>>)

\* d with key k bound to v / with key k removed
With(d, k, v) == [x \in (DOMAIN d) \cup {k} |-> IF x = k THEN v ELSE d[x]]
Without(d, k) == [x \in (DOMAIN d) \ {k} |-> d[x]]

IsRaise(v) == v.t = "raise"
IsStr(v) == v.t = "str"
IsDict(v) == v.t = "dict"
IsList(v) == v.t = "list"

\* Python truth value of an object (`if x`, `not x`)
Truthy(v) ==
    CASE v.t = "null" -> FALSE
      [] v.t = "str"  -> Len(v.s) > 0
      [] v.t = "num"  -> v.n # 0
      [] v.t = "list" -> Len(v.l) > 0
      [] v.t = "dict" -> DOMAIN v.d # {}
      [] OTHER -> TRUE

\* obj.get(k, default): only a dict has .get; anything else is an AttributeError
dict_get(obj, k, default) ==
    IF IsRaise(obj) THEN obj
    ELSE IF ~IsDict(obj) THEN Raise("AttributeError")
    ELSE IF k \in DOMAIN obj.d THEN obj.d[k]
    ELSE default

\* `k in obj` for a dict obj
HasKey(obj, k) == IsDict(obj) /\ k \in DOMAIN obj.d

(***************************************************************************)
(* WhoisService._extract_hostnames                                         *)
(***************************************************************************)
\* the test of the loop body: a dict carrying "hostName", or a str
UsableServer(server) ==
    (IsDict(server) /\ "hostName" \in DOMAIN server.d) \/ IsStr(server)

\* what the loop body appends for a usable server
AppendedHost(server) ==
    IF IsDict(server) THEN server.d["hostName"] ELSE server

\* `if isinstance(name_servers, list): for server in name_servers: ...`
CollectHostnames(name_servers) ==
    IF IsList(name_servers)
    THEN LET usable == SelectSeq(name_servers.l, UsableServer)
         IN  [i \in 1..Len(usable) |-> AppendedHost(usable[i])]
    ELSE <<>>

\* ", ".join(items): TypeError unless every item is a str
RECURSIVE JoinFrom(_, _)
JoinFrom(items, i) ==
    IF i > Len(items) THEN <<>>
    ELSE IF i = Len(items) THEN items[i].s
    ELSE items[i].s \o <<",", " ">> \o JoinFrom(items, i + 1)

str_join(items) ==
    IF \E i \in 1..Len(items) : ~IsStr(items[i]) THEN Raise("TypeError")
    ELSE JStr(JoinFrom(items, 1))

\* a faulty variant: truncation keeps 25 characters before the dots
TruncateKeeping25(hostname_str) ==
    IF Len(hostname_str) > 25
    THEN SubSeq(hostname_str, 1, 25) \o <<".", ".", ".">>
    ELSE hostname_str

\* `if len(hostname_str) > 25: return hostname_str[:22] + "..."`
Truncate(hostname_str) ==
    IF Len(hostname_str) > 25
    THEN SubSeq(hostname_str, 1, 22) \o <<".", ".", ".">>
    ELSE hostname_str

\* a faulty variant: the registryData list is appended even when the top-level
\* list already gave hostnames
ExtractBothSources(d) ==
    LET top == CollectHostnames(dict_get(d, "nameServers", JList(<<>>)))
        reg == IF HasKey(d, "registryData") /\ IsDict(d.d["registryData"])
               THEN CollectHostnames(dict_get(d.d["registryData"], "nameServers", JList(<<>>)))
               ELSE <<>>
        all == top \o reg
        joined == str_join(all)
    IN  IF all = <<>> THEN EmptyStr
        ELSE IF IsRaise(joined) THEN joined
        ELSE JStr(Truncate(joined.s))

_extract_hostnames(d) ==
    LET name_servers == dict_get(d, "nameServers", JList(<<>>))
        first == CollectHostnames(name_servers)
        registry_data == dict_get(d, "registryData", EmptyDict)
        second == dict_get(registry_data, "nameServers", JList(<<>>))
    IN  IF IsRaise(name_servers) THEN name_servers
        ELSE IF first = <<>> /\ HasKey(d, "registryData") /\ IsRaise(second)
        THEN second
        ELSE LET hostnames ==
                     IF first = <<>> /\ HasKey(d, "registryData")
                     THEN CollectHostnames(second)
                     ELSE first
                 hostname_str == str_join(hostnames)
             IN  IF hostnames = <<>> THEN EmptyStr
                 ELSE IF IsRaise(hostname_str) THEN hostname_str
                 ELSE JStr(Truncate(hostname_str.s))

(***************************************************************************)
(* datetime values and the date-string parser                              *)
(*                                                                         *)
(* A datetime is [t |-> "datetime", year, month, day, second (of the day), *)
(* aware, utcoffset (minutes)].  Microseconds are left out: a parsed       *)
(* registration date has none, so they never change timedelta.days.        *)
(***************************************************************************)
PyNone == JNull

DateTime(y, m, d, sec, aware, off) ==
    [t |-> "datetime", year |-> y, month |-> m, day |-> d, second |-> sec,
     aware |-> aware, utcoffset |-> off]

IsDateTime(v) == v.t = "datetime"

IsLeap(y) == (y % 4 = 0) /\ ((y % 100 # 0) \/ (y % 400 = 0))

DaysInMonth(y, m) ==
    IF m = 2 THEN (IF IsLeap(y) THEN 29 ELSE 28)
    ELSE IF m \in {4, 6, 9, 11} THEN 30 ELSE 31

\* datetime.date.toordinal: days since 0001-01-01, that day being 1
DaysBeforeYear(y) ==
    (y - 1) * 365 + ((y - 1) \div 4) - ((y - 1) \div 100) + ((y - 1) \div 400)

RECURSIVE DaysBeforeMonth(_, _)
DaysBeforeMonth(y, m) ==
    IF m = 1 THEN 0 ELSE DaysBeforeMonth(y, m - 1) + DaysInMonth(y, m - 1)

ToOrdinal(dt) == DaysBeforeYear(dt.year) + DaysBeforeMonth(dt.year, dt.month) + dt.day

\* (a - b).days for naive datetimes: timedelta normalises so that
\* 0 <= seconds < 86400, i.e. days is the floor
TimedeltaDays(a, b) ==
    ((ToOrdinal(a) - ToOrdinal(b)) * 86400 + (a.second - b.second)) \div 86400

Digits == <<"0", "1", "2", "3", "4", "5", "6", "7", "8", "9">>
IsDigit(c) == \E i \in 1..10 : Digits[i] = c
DigitVal(c) == (CHOOSE i \in 1..10 : Digits[i] = c) - 1

RECURSIVE NumVal(_, _, _)
NumVal(s, i, j) ==
    IF j < i THEN 0 ELSE NumVal(s, i, j - 1) * 10 + DigitVal(s[j])

AllDigits(s, i, j) == \A k \in i..j : IsDigit(s[k])

\* the shapes of date string the model's provider sends:
\*   YYYY-MM-DD | YYYY-MM-DDTHH:MM:SS | ...Z | ...(+|-)HH:MM
DateShape(s) ==
    /\ Len(s) \in {10, 19, 20, 25}
    /\ AllDigits(s, 1, 4) /\ s[5] = "-" /\ AllDigits(s, 6, 7)
    /\ s[8] = "-" /\ AllDigits(s, 9, 10)
    /\ Len(s) >= 19 =>
          /\ s[11] = "T" /\ AllDigits(s, 12, 13) /\ s[14] = ":"
          /\ AllDigits(s, 15, 16) /\ s[17] = ":" /\ AllDigits(s, 18, 19)
    /\ Len(s) = 20 => s[20] = "Z"
    /\ Len(s) = 25 =>
          /\ s[20] \in {"+", "-"} /\ AllDigits(s, 21, 22)
          /\ s[23] = ":" /\ AllDigits(s, 24, 25)

DateInRange(s) ==
    LET y == NumVal(s, 1, 4)
        m == NumVal(s, 6, 7)
        d == NumVal(s, 9, 10)
    IN  /\ y >= 1 /\ m \in 1..12 /\ d \in 1..DaysInMonth(y, m)
        /\ Len(s) >= 19 =>
              /\ NumVal(s, 12, 13) < 24
              /\ NumVal(s, 15, 16) < 60
              /\ NumVal(s, 18, 19) < 60
        /\ Len(s) = 25 => NumVal(s, 21, 22) < 24 /\ NumVal(s, 24, 25) < 60

\* dateutil.parser.parse(date_str): TypeError for a non-string, ValueError
\* (ParserError) for a string that is no date, else a datetime that is aware
\* exactly when the string carries an offset
parser_parse(v) ==
    IF ~IsStr(v) THEN Raise("TypeError")
    ELSE IF ~(DateShape(v.s) /\ DateInRange(v.s)) THEN Raise("ValueError")
    ELSE LET s == v.s
             sec == IF Len(s) >= 19
                    THEN NumVal(s, 12, 13) * 3600 + NumVal(s, 15, 16) * 60 + NumVal(s, 18, 19)
                    ELSE 0
             off == IF Len(s) = 25
                    THEN (IF s[20] = "-" THEN -1 ELSE 1)
                         * (NumVal(s, 21, 22) * 60 + NumVal(s, 24, 25))
                    ELSE 0
         IN  DateTime(NumVal(s, 1, 4), NumVal(s, 6, 7), NumVal(s, 9, 10), sec,
                      Len(s) >= 20, off)

\* `if dt.tzinfo is not None: dt = dt.replace(tzinfo=None)`
MakeNaive(dt) ==
    IF dt.aware THEN [dt EXCEPT !.aware = FALSE, !.utcoffset = 0] ELSE dt

(***************************************************************************)
(* WhoisService._parse_date                                                *)
(***************************************************************************)
\* lines 172-180: the candidate the three lookups leave in date_str
DateCandidate(d, k) ==
    LET c1 == dict_get(d, k, PyNone)
        c2 == IF ~IsRaise(c1) /\ ~Truthy(c1) /\ HasKey(d, "registryData")
              THEN dict_get(dict_get(d, "registryData", EmptyDict), k, PyNone)
              ELSE c1
        c3 == IF ~IsRaise(c2) /\ ~Truthy(c2)
              THEN dict_get(dict_get(dict_get(d, "registryData", EmptyDict),
                                     "registry", EmptyDict), k, PyNone)
              ELSE c2
    IN  c3

\* a faulty variant: a candidate that fails to parse lets the exception out
ParseCandidateUncaught(date_str) ==
    IF IsRaise(date_str) THEN date_str
    ELSE IF ~Truthy(date_str) THEN PyNone
    ELSE LET dt == parser_parse(date_str)
         IN  IF IsRaise(dt) THEN dt ELSE MakeNaive(dt)

\* lines 182-192: the try block
ParseCandidate(date_str) ==
    IF IsRaise(date_str) THEN date_str
    ELSE IF ~Truthy(date_str) THEN PyNone
    ELSE LET dt == parser_parse(date_str)
         IN  IF IsRaise(dt) THEN PyNone ELSE MakeNaive(dt)

_parse_date(d, k) == ParseCandidate(DateCandidate(d, k))

(***************************************************************************)
(* WhoisService._get_contact_info and parse_contact_information            *)
(***************************************************************************)
\* the first exception among the values, in evaluation order; else `value`
RECURSIVE FirstRaiseOr(_, _)
FirstRaiseOr(steps, value) ==
    IF steps = <<>> THEN value
    ELSE IF IsRaise(Head(steps)) THEN Head(steps)
    ELSE FirstRaiseOr(Tail(steps), value)

\* a faulty variant: the top-level role block is tried before registryData's
GetContactTopLevelFirst(domain_data, registry_data, contact_type) ==
    LET c1 == dict_get(domain_data, contact_type \o "Contact", EmptyDict)
        c2 == IF ~IsRaise(c1) /\ ~Truthy(c1)
              THEN dict_get(registry_data, contact_type \o "Contact", EmptyDict)
              ELSE c1
        c3 == IF ~IsRaise(c2) /\ ~Truthy(c2)
              THEN dict_get(domain_data, "registrant", EmptyDict)
              ELSE c2
    IN  c3

_get_contact_info(domain_data, registry_data, contact_type) ==
    LET c1 == dict_get(registry_data, contact_type \o "Contact", EmptyDict)
        c2 == IF ~IsRaise(c1) /\ ~Truthy(c1)
              THEN dict_get(domain_data, contact_type \o "Contact", EmptyDict)
              ELSE c1
        c3 == IF ~IsRaise(c2) /\ ~Truthy(c2)
              THEN dict_get(domain_data, "registrant", EmptyDict)
              ELSE c2
    IN  c3

\* ContactInformation is built empty and its fields are assigned without
\* validation, so a field holds whatever value the document held
parse_contact_information(doc) ==
    LET whois_record == dict_get(doc, "WhoisRecord", EmptyDict)
        registry_email == dict_get(dict_get(whois_record, "registryData", EmptyDict),
                                   "contactEmail", EmptyStr)
        contacts == IF ~IsRaise(registry_email) /\ ~Truthy(registry_email)
                    THEN dict_get(whois_record, "contactEmail", EmptyStr)
                    ELSE registry_email
        registry_data == dict_get(whois_record, "registryData", EmptyDict)
        registrant == dict_get(_get_contact_info(whois_record, registry_data, "registrant"),
                               "name", EmptyStr)
        technical == dict_get(_get_contact_info(whois_record, registry_data, "technical"),
                              "name", EmptyStr)
        admin == dict_get(_get_contact_info(whois_record, registry_data, "administrative"),
                          "name", EmptyStr)
    IN  FirstRaiseOr(<<whois_record, contacts, registry_data, registrant, technical, admin>>,
                     [t |-> "ContactInformation",
                      registrant_name |-> registrant,
                      technical_contact_name |-> technical,
                      administrative_contact_name |-> admin,
                      contact_email |-> contacts])

(***************************************************************************)
(* WhoisService.parse_domain_information                                   *)
(***************************************************************************)
\* lines 65-67
ExtractRegistrar(whois_record) ==
    LET registrar_name == dict_get(whois_record, "registrarName", EmptyStr)
    IN  IF ~IsRaise(registrar_name) /\ ~Truthy(registrar_name)
           /\ HasKey(whois_record, "registrar")
        THEN dict_get(dict_get(whois_record, "registrar", EmptyDict), "name", EmptyStr)
        ELSE registrar_name

\* a faulty variant: the age is the number of completed calendar years
AnniversaryKey(dt) == (dt.month * 100 + dt.day) * 86400 + dt.second

AgeInCalendarYears(registration_date, today) ==
    IF ~IsRaise(registration_date) /\ Truthy(registration_date)
    THEN JNum(today.year - registration_date.year
              - (IF AnniversaryKey(today) >= AnniversaryKey(registration_date)
                 THEN 0 ELSE 1))
    ELSE PyNone

\* a faulty variant: the age starts at 0 instead of None
EstimatedDomainAgeDefaultZero(registration_date, today) ==
    IF ~IsRaise(registration_date) /\ Truthy(registration_date)
    THEN JNum(TimedeltaDays(today, registration_date) \div 365)
    ELSE JNum(0)

\* lines 74-81: today = datetime.now() is naive
EstimatedDomainAge(registration_date, today) ==
    IF ~IsRaise(registration_date) /\ Truthy(registration_date)
    THEN JNum(TimedeltaDays(today, registration_date) \div 365)
    ELSE PyNone

\* the constructor validates the declared field types: domain_name: str,
\* registrar: Optional[str]
DomainInformation(domain_name, registrar, registration_date, expiration_date, estimated_domain_age, hostnames) ==
    IF ~IsStr(domain_name) \/ ~(IsStr(registrar) \/ registrar.t = "null")
    THEN Raise("ValidationError")
    ELSE [t |-> "DomainInformation",
          domain_name |-> domain_name,
          registrar |-> registrar,
          registration_date |-> registration_date,
          expiration_date |-> expiration_date,
          estimated_domain_age |-> estimated_domain_age,
          hostnames |-> hostnames]

parse_domain_information(doc, today) ==
    LET whois_record == dict_get(doc, "WhoisRecord", EmptyDict)
        domain_name == dict_get(whois_record, "domainName", EmptyStr)
        registrar_data == ExtractRegistrar(whois_record)
        registration_date == _parse_date(whois_record, "createdDate")
        expiration_date == _parse_date(whois_record, "expiresDate")
        estimated_domain_age == EstimatedDomainAge(registration_date, today)
        hostnames == _extract_hostnames(whois_record)
    IN  FirstRaiseOr(<<whois_record, domain_name, registrar_data, registration_date,
                       expiration_date, hostnames>>,
                     DomainInformation(domain_name, registrar_data, registration_date,
                                       expiration_date, estimated_domain_age, hostnames))

(***************************************************************************)
(* The route get_whois_data and WhoisService.fetch_domain_data             *)
(***************************************************************************)
UpperCase == <<"A", "B", "C", "D", "E", "F", "G", "H", "I", "J", "K", "L", "M",
               "N", "O", "P", "Q", "R", "S", "T", "U", "V", "W", "X", "Y", "Z">>
LowerCase == <<"a", "b", "c", "d", "e", "f", "g", "h", "i", "j", "k", "l", "m",
               "n", "o", "p", "q", "r", "s", "t", "u", "v", "w", "x", "y", "z">>

LowerChar(c) ==
    IF \E i \in 1..26 : UpperCase[i] = c
    THEN LowerCase[CHOOSE i \in 1..26 : UpperCase[i] = c]
    ELSE c

\* str.lower()
str_lower(s) == [i \in 1..Len(s) |-> LowerChar(s[i])]

StrDomain == <<"d", "o", "m", "a", "i", "n">>
StrContact == <<"c", "o", "n", "t", "a", "c", "t">>

\* an exception with the text str(e) gives
RaiseMsg(e, msg) == [t |-> "raise", e |-> e, msg |-> msg]

ExceptionText(r) == IF "msg" \in DOMAIN r THEN r.msg ELSE r.e

\* the provider's answers: kind "ok" carries the JSON body; "network"
\* (httpx.RequestError, timeouts included) and "status" (raise_for_status on a
\* non-2xx answer) are httpx.HTTPError; "notjson" makes response.json() raise
\* json.JSONDecodeError, which is no httpx.HTTPError
IsUpstreamFailure(u) == u.kind \in {"network", "status", "notjson"}

\* a faulty variant: the except clause logs the error and returns an empty document
FetchSwallowingErrors(u) ==
    IF u.kind = "ok" THEN u.body ELSE EmptyDict

fetch_domain_data(u) ==
    IF u.kind \in {"network", "status"}
    THEN RaiseMsg("Exception", "Failed to fetch domain information: " \o u.reason)
    ELSE IF u.kind = "notjson"
    THEN RaiseMsg("JSONDecodeError", u.reason)
    ELSE u.body

\* which normalizer lines 41-44 call for a fetched document
NormalizerChosen(req, whois_data) ==
    IF IsRaise(whois_data) THEN "none"
    ELSE IF str_lower(req.info_type.s) = StrDomain THEN "domain"
    ELSE IF str_lower(req.info_type.s) = StrContact THEN "contact"
    ELSE "none"

\* lines 38-49: the body of the try block, returning a record or an exception
RouteTryBody(req, whois_data, today) ==
    IF IsRaise(whois_data) THEN whois_data
    ELSE IF str_lower(req.info_type.s) = StrDomain
    THEN parse_domain_information(whois_data, today)
    ELSE IF str_lower(req.info_type.s) = StrContact
    THEN parse_contact_information(whois_data)
    ELSE [t |-> "raise", e |-> "HTTPException", status |-> 400,
          msg |-> "400: Invalid info_type. Must be 'domain' or 'contact'"]

NoBody == [t |-> "nobody"]

\* lines 50-51: `except Exception` catches every exception of the try block,
\* the HTTPException(400) raised inside it included
RouteResponse(outcome) ==
    IF IsRaise(outcome)
    THEN [status |-> 500, detail |-> ExceptionText(outcome), body |-> NoBody]
    ELSE [status |-> 200, detail |-> "", body |-> outcome]

\* DomainRequest: both fields are required and of type str; nothing restricts
\* info_type to the two literals
DomainRequestValid(body) ==
    /\ IsDict(body)
    /\ HasKey(body, "domain_name") /\ IsStr(body.d["domain_name"])
    /\ HasKey(body, "info_type") /\ IsStr(body.d["info_type"])

(***************************************************************************)
(* Inputs: strings, dates and provider documents                           *)
(***************************************************************************)
Pad2(n) == <<Digits[(n \div 10) + 1], Digits[(n % 10) + 1]>>
Pad4(n) == Pad2(n \div 100) \o Pad2(n % 100)

\* the text the provider sends for a wall-clock time: YYYY-MM-DDTHH:MM:SS
IsoFormat(dt) ==
    Pad4(dt.year) \o <<"-">> \o Pad2(dt.month) \o <<"-">> \o Pad2(dt.day) \o <<"T">>
    \o Pad2(dt.second \div 3600) \o <<":">> \o Pad2((dt.second % 3600) \div 60)
    \o <<":">> \o Pad2(dt.second % 60)

Naive(y, m, d, sec) == DateTime(y, m, d, sec, FALSE, 0)

StrExampleCom == <<"e", "x", "a", "m", "p", "l", "e", ".", "c", "o", "m">>
StrRegistrar == <<"E", "x", "a", "m", "p", "l", "e", " ", "R", "e", "g", "i", "s", "t", "r", "a", "r">>
StrAlice == <<"A", "l", "i", "c", "e">>
StrBob == <<"B", "o", "b">>
StrCarol == <<"C", "a", "r", "o", "l">>
StrEmail == <<"a", "d", "m", "i", "n", "@", "e", "x", "a", "m", "p", "l", "e", ".", "c", "o", "m">>
StrX == <<"x">>
StrNs1 == <<"n", "s", "1", ".", "e", "x", "a", "m", "p", "l", "e", ".", "c", "o", "m">>
StrNs2 == <<"n", "s", "2", ".", "e", "x", "a", "m", "p", "l", "e", ".", "c", "o", "m">>
StrNs8 == <<"n", "s", ".", "a", "b", ".", "i", "o">>
StrNs9 == <<"n", "s", "3", ".", "a", "b", ".", "i", "o">>
StrCreated == <<"2", "0", "1", "6", "-", "1", "1", "-", "0", "7", "T", "1", "2", ":", "3", "4", ":", "5", "6">>
StrCreatedAware == <<"2", "0", "1", "6", "-", "1", "1", "-", "0", "6", "T", "2", "3", ":", "3", "0", ":", "0", "0", "-", "0", "5", ":", "0", "0">>
StrDateOnly == <<"2", "0", "0", "5", "-", "0", "6", "-", "1", "5">>
StrFuture == <<"2", "0", "3", "0", "-", "0", "1", "-", "0", "1", "T", "0", "0", ":", "0", "0", ":", "0", "0", "Z">>
StrNoSuchDay == <<"2", "0", "1", "4", "-", "0", "2", "-", "3", "0">>
StrGarbage == <<"n", "o", "t", " ", "a", " ", "d", "a", "t", "e">>

\* values of the wrong type for a field that should hold an object or a string
WrongValues ==
    {JNull, JStr(StrX), JNum(7), JList(<<JNum(1)>>), JDict([other |-> JNum(1)])}

GoodRegistryData ==
    [createdDate |-> JStr(StrCreated),
     nameServers |-> JList(<<JDict([hostName |-> JStr(StrNs2)])>>),
     registrantContact |-> JDict([name |-> JStr(StrAlice)]),
     contactEmail |-> JStr(StrEmail)]

GoodRecord ==
    [domainName |-> JStr(StrExampleCom),
     registrarName |-> EmptyStr,
     registrar |-> JDict([name |-> JStr(StrRegistrar)]),
     createdDate |-> JStr(StrCreatedAware),
     expiresDate |-> JStr(StrFuture),
     nameServers |-> JList(<<JStr(StrNs1), JDict([hostName |-> JStr(StrNs2)])>>),
     registryData |-> JDict(GoodRegistryData),
     technicalContact |-> JDict([name |-> JStr(StrBob)]),
     registrant |-> JDict([name |-> JStr(StrCarol)]),
     contactEmail |-> JStr(StrEmail)]

\* a record that holds its data only at the fallback locations
SparseRecord ==
    [domainName |-> JStr(StrExampleCom),
     registryData |-> JDict([registry |-> JDict([createdDate |-> JStr(StrDateOnly)])]),
     registrant |-> JDict([name |-> JStr(StrCarol)])]

WhoisDoc(rec) == JDict([WhoisRecord |-> JDict(rec)])

\* GoodRecord / SparseRecord with one field missing or of the wrong type
DamagedRecords(rec) ==
    {Without(rec, k) : k \in DOMAIN rec}
    \cup {With(rec, k, w) : k \in (DOMAIN rec) \cup {"registrantContact"}, w \in WrongValues}

DamagedRegistryData ==
    {With(GoodRecord, "registryData", JDict(With(GoodRegistryData, k, w))) :
        k \in (DOMAIN GoodRegistryData) \cup {"registry"}, w \in WrongValues}

DamagedHostName ==
    {With(SparseRecord, "nameServers", JList(<<JStr(StrNs1), JDict([hostName |-> w])>>)) :
        w \in WrongValues \ {JStr(StrX)}}

DocSamples ==
    {WhoisDoc(GoodRecord), WhoisDoc(SparseRecord), EmptyDict}
    \cup {JDict([WhoisRecord |-> w]) : w \in WrongValues}
    \cup {WhoisDoc(r) : r \in DamagedRecords(GoodRecord) \cup DamagedRecords(SparseRecord)
                               \cup DamagedRegistryData \cup DamagedHostName}

NowSamples ==
    {Naive(2026, 11, 6, 45296), Naive(2024, 3, 1, 0), Naive(2024, 2, 29, 36000)}

InfoTypes ==
    {<<"d", "o", "m", "a", "i", "n">>, <<"D", "O", "M", "A", "I", "N">>, <<"c", "o", "n", "t", "a", "c", "t">>, <<"C", "o", "n", "t", "a", "c", "t">>, <<"i", "n", "v", "a", "l", "i", "d">>, <<"d", "o", "m", "a", "i", "n", "s">>, <<>>}

RequestBodies ==
    {JDict([domain_name |-> JStr(StrExampleCom), info_type |-> JStr(it)]) : it \in InfoTypes}
    \cup {JDict([domain_name |-> JStr(StrExampleCom), info_type |-> JNum(1)]),
          JDict([domain_name |-> JStr(StrExampleCom)])}

UpstreamAnswers ==
    {[kind |-> "network", reason |-> "ReadTimeout", body |-> JNull],
     [kind |-> "status", reason |-> "Server error '503 Service Unavailable'", body |-> JNull],
     [kind |-> "notjson", reason |-> "Expecting value: line 1 column 1 (char 0)", body |-> JNull]}
    \cup {[kind |-> "ok", reason |-> "", body |-> doc] : doc \in DocSamples}

(***************************************************************************)
(* Spec: one lookup after another through the route                        *)
(***************************************************************************)
NoAnswer == [kind |-> "none", reason |-> "", body |-> JNull]
NoResponse == [status |-> 0, detail |-> "", body |-> NoBody]
NoResult == [t |-> "noresult"]

Init ==
    /\ pc = "idle"
    /\ request = JNull
    /\ upstreamCalls = 0
    /\ upstream = NoAnswer
    /\ normalized = "none"
    /\ response = NoResponse
    /\ now = Naive(2026, 11, 6, 45296)
    /\ data = JNull
    /\ key = ""
    /\ result = NoResult

\* FastAPI answers 422 for a body DomainRequest does not validate; the
\* handler is not called
RejectRequest(body) ==
    /\ pc = "idle"
    /\ ~DomainRequestValid(body)
    /\ pc' = "done"
    /\ request' = body
    /\ response' = [status |-> 422, detail |-> "validation error", body |-> NoBody]
    /\ UNCHANGED <<upstreamCalls, upstream, normalized, now, data, key, result>>

\* get_whois_data up to its await: line 38 calls fetch_domain_data, whose
\* line 40 sends the GET
get_whois_data_call(body) ==
    /\ pc = "idle"
    /\ DomainRequestValid(body)
    /\ pc' = "awaiting"
    /\ request' = body
    /\ upstreamCalls' = upstreamCalls + 1
    /\ UNCHANGED <<upstream, normalized, response, now, data, key, result>>

\* the provider answers, or the transport gives up
ProviderAnswers(u) ==
    /\ pc = "awaiting"
    /\ pc' = "answered"
    /\ upstream' = u
    /\ UNCHANGED <<request, upstreamCalls, normalized, response, now, data, key, result>>

\* get_whois_data from the await to its return or raise
get_whois_data_return(today) ==
    /\ pc = "answered"
    /\ LET whois_data == fetch_domain_data(upstream)
           outcome == RouteTryBody(request.d, whois_data, today)
       IN  /\ data' = (IF IsRaise(whois_data) THEN JNull ELSE whois_data)
           /\ normalized' = NormalizerChosen(request.d, whois_data)
           /\ result' = outcome
           /\ response' = RouteResponse(outcome)
    /\ now' = today
    /\ pc' = "done"
    /\ UNCHANGED <<request, upstreamCalls, upstream, key>>

\* nothing is kept from one lookup to the next
NextLookup ==
    /\ pc = "done"
    /\ pc' = "idle"
    /\ request' = JNull
    /\ upstreamCalls' = 0
    /\ upstream' = NoAnswer
    /\ normalized' = "none"
    /\ response' = NoResponse
    /\ now' = Naive(2026, 11, 6, 45296)
    /\ data' = JNull
    /\ key' = ""
    /\ result' = NoResult

Next ==
    \/ \E body \in RequestBodies : RejectRequest(body)
    \/ \E body \in RequestBodies : get_whois_data_call(body)
    \/ \E u \in UpstreamAnswers : ProviderAnswers(u)
    \/ \E today \in NowSamples : get_whois_data_return(today)
    \/ NextLookup

Spec == Init /\ [][Next]_vars

\* a validated request whose info_type, lower-cased, is neither literal
InvalidInfoType(req) ==
    /\ DomainRequestValid(req)
    /\ str_lower(req.d["info_type"].s) \notin {StrDomain, StrContact}

\* C1: for a request whose info_type is neither "domain" nor "contact"
\* (case-insensitively) no call to the provider is ever made.
C1_InvalidInfoTypeMakesNoUpstreamCall ==
    InvalidInfoType(request) => upstreamCalls = 0

\* C2: a lookup whose info_type is neither "domain" nor "contact" ends in the
\* client-side rejection (HTTP 400), never in the server-side failure (HTTP 500).
C2_InvalidInfoTypeAnswers400 ==
    (pc = "done" /\ InvalidInfoType(request)) => response.status = 400

\* C3: whatever document the provider returned, the normalizer the route runs
\* returns a facts record and never raises.
C3_NormalizersNeverRaise ==
    (pc = "done" /\ normalized # "none") =>
        result.t \in {"DomainInformation", "ContactInformation"}

\* C7: a failed provider request (network failure or timeout, non-2xx answer,
\* body that is no JSON) ends the lookup in the server-side failure carrying
\* the failure's reason; no normalizer runs and no record is returned; and a
\* lookup never makes more than one upstream call.
C7_UpstreamFailureIsAllOrNothing ==
    /\ upstreamCalls <= 1
    /\ (pc = "done" /\ IsUpstreamFailure(upstream)) =>
          /\ upstreamCalls = 1
          /\ response.status = 500
          /\ response.detail \in
                {upstream.reason, "Failed to fetch domain information: " \o upstream.reason}
          /\ normalized = "none"
          /\ result.t = "raise"
          /\ response.body = NoBody

C7_Witness ==
    /\ pc = "done"
    /\ upstream.kind = "status"
    /\ str_lower(request.d["info_type"].s) = StrDomain
    /\ response.status = 500
    /\ normalized = "none"

(***************************************************************************)
(* SpecHost: _extract_hostnames applied to bounded WhoisRecord objects     *)
(***************************************************************************)
\* the largest number of nameServers entries of a record, both lists together
MaxServers == 3

Absent == [t |-> "absent"]

\* d with key k bound to v, unless v stands for "key missing"
Put(d, k, v) == IF v.t = "absent" THEN d ELSE With(d, k, v)

ServerEntries ==
    {JStr(StrNs1), JStr(StrNs8), JStr(StrNs9), EmptyStr,
     JDict([hostName |-> JStr(StrNs2)]), JDict([hostName |-> JNull]),
     JDict([name |-> JStr(StrNs2)]), JNum(7)}

ServerLists(n) == {JList(l) : l \in [1..n -> ServerEntries]}

ServerListsUpTo(n) == UNION {ServerLists(k) : k \in 0..n}

NotAList == {Absent, JNull, JStr(StrNs1), JDict([hostName |-> JStr(StrNs1)])}

NotARegistry == {Absent, JNull, JStr(StrX), EmptyDict}

HostRecord(top, registry_data) ==
    JDict(Put(Put(EmptyMap, "nameServers", top), "registryData", registry_data))

\* the records _extract_hostnames is applied to: two lists of at most
\* MaxServers entries together, or one list beside a value that is no list,
\* or a registryData that is missing or no object with nameServers
IsHostDoc(d) ==
    \/ \E a \in 0..MaxServers : \E top \in ServerLists(a) :
          \E inner \in ServerListsUpTo(MaxServers - a) :
             d = HostRecord(top, JDict([nameServers |-> inner]))
    \/ \E top \in NotAList : \E inner \in ServerListsUpTo(MaxServers) \cup NotAList :
          d = HostRecord(top, JDict(Put(EmptyMap, "nameServers", inner)))
    \/ \E top \in ServerListsUpTo(MaxServers) : \E inner \in NotAList :
          d = HostRecord(top, JDict(Put(EmptyMap, "nameServers", inner)))
    \/ \E top \in ServerListsUpTo(MaxServers) \cup NotAList : \E r \in NotARegistry :
          d = HostRecord(top, r)

InitHost ==
    /\ pc = "input"
    /\ IsHostDoc(data)
    /\ request = JNull
    /\ upstreamCalls = 0
    /\ upstream = NoAnswer
    /\ normalized = "none"
    /\ response = NoResponse
    /\ now = Naive(2026, 11, 6, 45296)
    /\ key = ""
    /\ result = NoResult

Apply_extract_hostnames ==
    /\ pc = "input"
    /\ result' = _extract_hostnames(data)
    /\ pc' = "extracted"
    /\ UNCHANGED <<request, upstreamCalls, upstream, normalized, response, now, data, key>>

NextHost == Apply_extract_hostnames

SpecHost == InitHost /\ [][NextHost]_vars

\* The claims' own reading of a record, written without the service's operators
ClaimValueAt(obj, k) ==
    IF obj.t = "dict" /\ k \in DOMAIN obj.d THEN obj.d[k] ELSE Absent

RECURSIVE ClaimSurvivors(_)
ClaimSurvivors(entries) ==
    IF entries = <<>> THEN <<>>
    ELSE LET e == Head(entries)
             rest == ClaimSurvivors(Tail(entries))
         IN  IF e.t = "str" THEN <<e>> \o rest
             ELSE IF e.t = "dict" /\ "hostName" \in DOMAIN e.d THEN <<e.d["hostName"]>> \o rest
             ELSE rest

ClaimSurvivorsOf(v) == IF v.t = "list" THEN ClaimSurvivors(v.l) ELSE <<>>

ClaimTopHosts(d) == ClaimSurvivorsOf(ClaimValueAt(d, "nameServers"))

ClaimRegistryHosts(d) ==
    ClaimSurvivorsOf(ClaimValueAt(ClaimValueAt(d, "registryData"), "nameServers"))

ClaimChosenHosts(d) ==
    IF ClaimTopHosts(d) # <<>> THEN ClaimTopHosts(d) ELSE ClaimRegistryHosts(d)

AllStrings(hosts) == \A i \in 1..Len(hosts) : hosts[i].t = "str"

RECURSIVE ClaimJoined(_)
ClaimJoined(hosts) ==
    IF Len(hosts) = 0 THEN <<>>
    ELSE IF Len(hosts) = 1 THEN hosts[1].s
    ELSE ClaimJoined(SubSeq(hosts, 1, Len(hosts) - 1)) \o <<",", " ">> \o hosts[Len(hosts)].s

\* shown is what the display makes of the joined string
Shows(shown, joined) ==
    IF Len(joined) <= 25 THEN shown = joined
    ELSE Len(shown) = 25 /\ SubSeq(shown, 1, 22) = SubSeq(joined, 1, 22)

\* the record makes the function consult a registryData that is no object
RegistryDataUnusable(d) ==
    /\ ClaimTopHosts(d) = <<>>
    /\ ClaimValueAt(d, "registryData").t \notin {"absent", "dict"}

DateKeys == {"createdDate", "expiresDate"}

DateValues ==
    {Absent, JNull, EmptyStr, JNum(0), JNum(5),
     JStr(StrCreated), JStr(StrCreatedAware), JStr(StrDateOnly), JStr(StrFuture),
     JStr(StrNoSuchDay), JStr(StrGarbage)}

NotAnObject == {Absent, JNull, JStr(StrX)}

DateRecord(k, v1, registry_data) ==
    JDict(Put(Put(EmptyMap, k, v1), "registryData", registry_data))

IsDateDoc(d, k) ==
    \E v1 \in DateValues :
        \/ \E r \in NotAnObject : d = DateRecord(k, v1, r)
        \/ \E v2 \in DateValues : \E g \in NotAnObject :
              d = DateRecord(k, v1, JDict(Put(Put(EmptyMap, k, v2), "registry", g)))
        \/ \E v2 \in DateValues : \E v3 \in DateValues :
              d = DateRecord(k, v1, JDict(Put(Put(EmptyMap, k, v2), "registry",
                                              JDict(Put(EmptyMap, k, v3)))))

InitDate ==
    /\ pc = "input"
    /\ key \in DateKeys
    /\ IsDateDoc(data, key)
    /\ now \in NowSamples
    /\ request = JNull
    /\ upstreamCalls = 0
    /\ upstream = NoAnswer
    /\ normalized = "none"
    /\ response = NoResponse
    /\ result = NoResult

Apply_parse_date ==
    /\ pc = "input"
    /\ result' = _parse_date(data, key)
    /\ pc' = "parsed"
    /\ UNCHANGED <<request, upstreamCalls, upstream, normalized, response, now, data, key>>

Apply_parse_domain_information ==
    /\ pc = "input"
    /\ result' = parse_domain_information(JDict([WhoisRecord |-> data]), now)
    /\ pc' = "normalized"
    /\ UNCHANGED <<request, upstreamCalls, upstream, normalized, response, now, data, key>>

NextDate == Apply_parse_date \/ Apply_parse_domain_information

SpecDate == InitDate /\ [][NextDate]_vars

ClaimNonEmpty(v) ==
    \/ v.t = "str" /\ v.s # <<>>
    \/ v.t = "num" /\ v.n # 0
    \/ v.t = "list" /\ v.l # <<>>
    \/ v.t = "dict" /\ DOMAIN v.d # {}

ClaimDateCandidates(d, k) ==
    <<ClaimValueAt(d, k),
      ClaimValueAt(ClaimValueAt(d, "registryData"), k),
      ClaimValueAt(ClaimValueAt(ClaimValueAt(d, "registryData"), "registry"), k)>>

ClaimFirstNonEmpty(c) ==
    IF \E i \in 1..Len(c) : ClaimNonEmpty(c[i])
    THEN c[CHOOSE i \in 1..Len(c) : ClaimNonEmpty(c[i]) /\ \A j \in 1..(i - 1) : ~ClaimNonEmpty(c[j])]
    ELSE Absent

\* the wall-clock reading of a candidate, absent when it does not parse
ClaimWallClock(v) ==
    LET dt == parser_parse(v)
    IN  IF dt.t = "raise" THEN PyNone
        ELSE [t |-> "datetime", year |-> dt.year, month |-> dt.month, day |-> dt.day,
              second |-> dt.second, aware |-> FALSE, utcoffset |-> 0]

ClaimDate(d, k) ==
    LET c == ClaimFirstNonEmpty(ClaimDateCandidates(d, k))
    IN  IF c.t = "absent" THEN PyNone ELSE ClaimWallClock(c)

\* the search has to go through a registryData or registry that is no object
DateLookupUnusable(d, k) ==
    LET c == ClaimDateCandidates(d, k)
        rd == ClaimValueAt(d, "registryData")
    IN  /\ ~ClaimNonEmpty(c[1])
        /\ \/ rd.t \notin {"absent", "dict"}
           \/ /\ rd.t = "dict"
              /\ ~ClaimNonEmpty(c[2])
              /\ ClaimValueAt(rd, "registry").t \notin {"absent", "dict"}

C4_AgeIffRegistrationDate ==
    (pc = "normalized" /\ result.t = "DomainInformation") =>
        LET reg == result.registration_date
            age == result.estimated_domain_age
        IN  /\ (age.t = "null") <=> (reg.t = "null")
            /\ reg.t # "null" =>
                  /\ age.t = "num"
                  /\ age.n * 365 <= TimedeltaDays(now, reg)
                  /\ TimedeltaDays(now, reg) < (age.n + 1) * 365
            /\ (\A i \in 1..3 : ClaimDateCandidates(data, "createdDate")[i].t = "absent")
                  => (reg.t = "null" /\ age.t = "null")

C4_Witness ==
    /\ pc = "normalized"
    /\ result.t = "DomainInformation"
    /\ result.registration_date = Naive(2016, 11, 7, 45296)
    /\ now = Naive(2026, 11, 6, 45296)
    /\ result.estimated_domain_age = JNum(10)

(***************************************************************************)
(* SpecAge: parse_domain_information on a record created ten calendar      *)
(* years, or ten years less one day, before every current time of the      *)
(* years NowFirstYear .. NowFirstYear + NowYears - 1                       *)
(***************************************************************************)
NowFirstYear == 2026
NowYears == 3

NextDay(dt) ==
    IF dt.day < DaysInMonth(dt.year, dt.month) THEN [dt EXCEPT !.day = dt.day + 1]
    ELSE IF dt.month < 12 THEN [dt EXCEPT !.day = 1, !.month = dt.month + 1]
    ELSE [dt EXCEPT !.day = 1, !.month = 1, !.year = dt.year + 1]

\* the same calendar day and time ten years earlier
TenYearsBefore(dt) == [dt EXCEPT !.year = dt.year - 10]

\* the day exists (a 29 February has no counterpart in a common year)
IsCalendarDate(dt) == dt.day <= DaysInMonth(dt.year, dt.month)

CreatedOn(dt) == WhoisDoc([domainName |-> JStr(StrExampleCom), createdDate |-> JStr(IsoFormat(dt))])

InitAge ==
    /\ pc = "input"
    /\ \E y \in NowFirstYear..(NowFirstYear + NowYears - 1) : \E m \in 1..12 :
          \E d \in 1..DaysInMonth(y, m) : \E sec \in {0, 45296} :
             now = Naive(y, m, d, sec)
    /\ data = JNull
    /\ key = ""
    /\ request = JNull
    /\ upstreamCalls = 0
    /\ upstream = NoAnswer
    /\ normalized = "none"
    /\ response = NoResponse
    /\ result = NoResult

RegisteredTenYearsBefore ==
    /\ pc = "input"
    /\ IsCalendarDate(TenYearsBefore(now))
    /\ data' = CreatedOn(TenYearsBefore(now))
    /\ result' = parse_domain_information(data', now)
    /\ pc' = "ten years"
    /\ UNCHANGED <<request, upstreamCalls, upstream, normalized, response, now, key>>

RegisteredTenYearsLessOneDay ==
    /\ pc = "input"
    /\ IsCalendarDate(TenYearsBefore(now))
    /\ data' = CreatedOn(NextDay(TenYearsBefore(now)))
    /\ result' = parse_domain_information(data', now)
    /\ pc' = "ten years less one day"
    /\ UNCHANGED <<request, upstreamCalls, upstream, normalized, response, now, key>>

NextAge == RegisteredTenYearsBefore \/ RegisteredTenYearsLessOneDay

SpecAge == InitAge /\ [][NextAge]_vars

AgeIs(n) == result.t = "DomainInformation" /\ result.estimated_domain_age = JNum(n)

\* C5 as stated: a registration date exactly 10 calendar years before now
\* gives estimated_domain_age 10, and one 10 years less 1 day before now gives 9.
C5_TenYearsLessOneDayGivesNine ==
    /\ pc = "ten years" => AgeIs(10)
    /\ pc = "ten years less one day" => AgeIs(9)

\* C5 amended: ten calendar years are 3652 or 3653 days, so both a registration
\* date exactly 10 calendar years before now and one 10 years less 1 day
\* before now (3651 or 3652 days) give estimated_domain_age 10.
C5_TenYearsLessOneDayGivesTen ==
    /\ pc = "ten years" =>
          /\ TimedeltaDays(now, result.registration_date) \in {3652, 3653}
          /\ AgeIs(10)
    /\ pc = "ten years less one day" =>
          /\ TimedeltaDays(now, result.registration_date) \in {3651, 3652}
          /\ AgeIs(10)

C5_Witness ==
    /\ pc = "ten years less one day"
    /\ result.t = "DomainInformation"
    /\ TimedeltaDays(now, result.registration_date) = 3651
    /\ result.estimated_domain_age = JNum(10)

(***************************************************************************)
(* SpecContact: parse_contact_information applied to documents that hold   *)
(* a role's contact block at the three searched locations                  *)
(***************************************************************************)
Roles == {"registrant", "technical", "administrative"}

ContactBlocks ==
    {Absent, JNull, EmptyStr, JStr(StrX), EmptyDict,
     JDict([name |-> JStr(StrAlice)]), JDict([name |-> JStr(StrBob)]),
     JDict([name |-> JStr(StrCarol)]), JDict([name |-> JNull]),
     JDict([organization |-> JStr(StrRegistrar)])}

ContactDoc(role, registry_data, b2, b3) ==
    WhoisDoc(Put(Put(Put(EmptyMap, "registryData", registry_data),
                     role \o "Contact", b2), "registrant", b3))

IsContactDoc(d) ==
    \E role \in Roles : \E b2 \in ContactBlocks : \E b3 \in ContactBlocks :
        \/ \E b1 \in ContactBlocks :
              d = ContactDoc(role, JDict(Put(EmptyMap, role \o "Contact", b1)), b2, b3)
        \/ \E r \in NotAnObject : d = ContactDoc(role, r, b2, b3)

InitContact ==
    /\ pc = "input"
    /\ IsContactDoc(data)
    /\ key = ""
    /\ now = Naive(2026, 11, 6, 45296)
    /\ request = JNull
    /\ upstreamCalls = 0
    /\ upstream = NoAnswer
    /\ normalized = "none"
    /\ response = NoResponse
    /\ result = NoResult

Apply_parse_contact_information ==
    /\ pc = "input"
    /\ result' = parse_contact_information(data)
    /\ pc' = "normalized"
    /\ UNCHANGED <<request, upstreamCalls, upstream, normalized, response, now, data, key>>

NextContact == Apply_parse_contact_information

SpecContact == InitContact /\ [][NextContact]_vars

ClaimContactBlocks(doc, role) ==
    LET rec == ClaimValueAt(doc, "WhoisRecord")
    IN  <<ClaimValueAt(ClaimValueAt(rec, "registryData"), role \o "Contact"),
          ClaimValueAt(rec, role \o "Contact"),
          ClaimValueAt(rec, "registrant")>>

\* the name of the first non-empty block; empty when it has none or no block
\* is non-empty
ClaimContactName(doc, role) ==
    LET block == ClaimFirstNonEmpty(ClaimContactBlocks(doc, role))
    IN  IF block.t = "dict" /\ "name" \in DOMAIN block.d THEN block.d["name"] ELSE EmptyStr

NameWritten(record, role) ==
    IF role = "registrant" THEN record.registrant_name
    ELSE IF role = "technical" THEN record.technical_contact_name
    ELSE record.administrative_contact_name

\* no record is produced: registryData is no object, or the block the chain
\* ends on (its first non-empty one, else the top-level registrant) is none
ContactLookupUnusable(doc) ==
    LET rec == ClaimValueAt(doc, "WhoisRecord")
    IN  \/ ClaimValueAt(rec, "registryData").t \notin {"absent", "dict"}
        \/ \E role \in Roles :
              LET blocks == ClaimContactBlocks(doc, role)
                  first == ClaimFirstNonEmpty(blocks)
              IN  IF first.t = "absent"
                  THEN blocks[3].t \notin {"absent", "dict"}
                  ELSE first.t # "dict"

====
